---- MODULE Spec2Model ----
(***************************************************************************)
(* Model of the carousel generator: the story splitter (textSplitter), the *)
(* slide orchestration of App.tsx and the slide composition of             *)
(* imageProcessor.                                                         *)
(*                                                                         *)
(* A string is a sequence of one-character strings.  Positions are         *)
(* 1-based; a JavaScript index k is position k + 1.                        *)
(***************************************************************************)
EXTENDS Integers, Sequences, FiniteSets, TLC

(***************************************************************************)
(* Character classes of the regular expressions.                           *)
(***************************************************************************)
\* \s
Whitespace == {" ", "\n", "\t"}
\* [.!?]
SentenceEnd == {".", "!", "?"}
\* [,;---] : comma, semicolon, em dash, en dash, hyphen
PunctuationMarks == {",", ";", "EMDASH", "ENDASH", "-"}

(***************************************************************************)
(* DEFAULT_OPTIONS and the two thresholds of adjustSlideCount.             *)
(***************************************************************************)
DefaultMaxCharsPerSlide == 125
DefaultMinSlides == 8
DefaultMaxSlides == 20
ExpandThreshold == 100
BisectThreshold == 50

DEFAULT_OPTIONS ==
  [maxCharsPerSlide |-> DefaultMaxCharsPerSlide,
   minSlides |-> DefaultMinSlides,
   maxSlides |-> DefaultMaxSlides]

\* 'Enter your story to begin...'
Placeholder ==
  <<"E","n","t","e","r"," ","y","o","u","r"," ","s","t","o","r","y"," ",
    "t","o"," ","b","e","g","i","n",".",".",".">>

(***************************************************************************)
(* String helpers.                                                         *)
(***************************************************************************)
\* Math.ceil(a / b) for a >= 0, b > 0
CeilDiv(a, b) == (a + b - 1) \div b

\* text.substring(from - 1, to) in 1-based inclusive positions
Substring(s, from, to) == IF from > to THEN <<>> ELSE SubSeq(s, from, to)

\* the least and the greatest element of a non-empty set of positions
First(S) == CHOOSE j \in S : \A k \in S : j <= k
Last(S) == CHOOSE j \in S : \A k \in S : j >= k

\* the first position >= i whose character is not in class (Len(s) + 1 if none):
\* the end of a greedy run class* starting at i
RunEnd(s, i, class) ==
  First({j \in i..(Len(s) + 1) : j > Len(s) \/ s[j] \notin class})

\* the last position <= i whose character is not whitespace (0 if none)
RunStart(s, i) ==
  Last({j \in 0..i : j < 1 \/ s[j] \notin Whitespace})

\* String.prototype.trim
Trim(s) == Substring(s, RunEnd(s, 1, Whitespace), RunStart(s, Len(s)))

\* the first position >= i whose character is in class (0 if none)
NextIn(s, i, class) ==
  LET hits == {j \in i..Len(s) : s[j] \in class} IN
  IF hits = {} THEN 0 ELSE First(hits)

RECURSIVE SplitLoop(_, _, _)
SplitLoop(s, start, acc) ==
  LET w == NextIn(s, start, Whitespace) IN
  IF w = 0 THEN Append(acc, Substring(s, start, Len(s)))
  ELSE SplitLoop(s, RunEnd(s, w, Whitespace), Append(acc, Substring(s, start, w - 1)))

\* text.split(/\s+/): empty strings at a leading or trailing whitespace run
SplitWhitespace(s) == SplitLoop(s, 1, <<>>)

RECURSIVE JoinFrom(_, _)
JoinFrom(parts, i) ==
  IF i > Len(parts) THEN <<>>
  ELSE IF i = Len(parts) THEN parts[i]
  ELSE parts[i] \o <<" ">> \o JoinFrom(parts, i + 1)

\* batch.join(' ')
JoinSpace(parts) == JoinFrom(parts, 1)

\* array.slice(0, n)
\* a slice that keeps every element
Slice0NoClamp(arr, n) == arr

Slice0(arr, n) == IF Len(arr) <= n THEN arr ELSE SubSeq(arr, 1, n)

RECURSIVE Flatten(_, _)
\* out.push(...f(x)) for each x, in order
Flatten(lists, i) ==
  IF i > Len(lists) THEN <<>> ELSE lists[i] \o Flatten(lists, i + 1)

(***************************************************************************)
(* splitIntoSentences: /([.!?]+)\s+/g                                       *)
(***************************************************************************)
\* the start of the leftmost match at or after position i (0 if none): a
\* greedy run of sentence enders that is followed by whitespace
NextSentenceMatch(text, i) ==
  LET hits == {j \in i..Len(text) :
                 /\ text[j] \in SentenceEnd
                 /\ LET e == RunEnd(text, j, SentenceEnd) IN
                    e <= Len(text) /\ text[e] \in Whitespace}
  IN IF hits = {} THEN 0 ELSE First(hits)

RECURSIVE SentenceLoop(_, _, _)
SentenceLoop(text, lastIndex, sentences) ==
  LET m == NextSentenceMatch(text, lastIndex) IN
  IF m = 0
  THEN LET remaining == Trim(Substring(text, lastIndex, Len(text))) IN
       IF remaining # <<>> THEN Append(sentences, remaining) ELSE sentences
  ELSE LET e1 == RunEnd(text, m, SentenceEnd)
           e0 == RunEnd(text, e1, Whitespace)
           sentence == Trim(Substring(text, lastIndex, e1 - 1))
       IN SentenceLoop(text, e0,
            IF sentence # <<>> THEN Append(sentences, sentence) ELSE sentences)

splitIntoSentences(text) == SentenceLoop(text, 1, <<>>)

(***************************************************************************)
(* splitLongSentence: /([,;---])\s*/g with greedy accumulation             *)
(***************************************************************************)
RECURSIVE PunctuationLoop(_, _, _, _, _)
PunctuationLoop(sentence, maxChars, lastIndex, currentSegment, segments) ==
  LET m == NextIn(sentence, lastIndex, PunctuationMarks) IN
  IF m = 0
  THEN LET remaining == Trim(Substring(sentence, lastIndex, Len(sentence))) IN
       IF currentSegment # <<>>
       THEN IF Len(currentSegment) + 1 + Len(remaining) <= maxChars
            THEN Append(segments, currentSegment \o <<" ">> \o remaining)
            ELSE IF remaining # <<>>
                 THEN Append(Append(segments, currentSegment), remaining)
                 ELSE Append(segments, currentSegment)
       ELSE IF remaining # <<>> THEN Append(segments, remaining) ELSE segments
  ELSE LET segment == Trim(Substring(sentence, lastIndex, m))
           e0 == RunEnd(sentence, m + 1, Whitespace)
       IN IF Len(currentSegment) + 1 + Len(segment) <= maxChars
          THEN PunctuationLoop(sentence, maxChars, e0,
                 IF currentSegment # <<>>
                 THEN currentSegment \o <<" ">> \o segment ELSE segment,
                 segments)
          ELSE PunctuationLoop(sentence, maxChars, e0, segment,
                 IF currentSegment # <<>>
                 THEN Append(segments, currentSegment) ELSE segments)

splitLongSentence(sentence, maxChars) ==
  IF Len(sentence) <= maxChars THEN <<sentence>>
  ELSE LET segments == PunctuationLoop(sentence, maxChars, 1, <<>>, <<>>) IN
       IF Len(segments) > 0 THEN segments ELSE <<sentence>>

(***************************************************************************)
(* splitByCharacterCount                                                   *)
(***************************************************************************)
RECURSIVE ChunkLoop(_, _, _, _, _)
ChunkLoop(words, maxChars, i, currentChunk, chunks) ==
  IF i > Len(words)
  THEN IF currentChunk # <<>> THEN Append(chunks, currentChunk) ELSE chunks
  ELSE LET word == words[i]
           testChunk == IF currentChunk # <<>>
                        THEN currentChunk \o <<" ">> \o word ELSE word
       IN IF Len(testChunk) <= maxChars
          THEN ChunkLoop(words, maxChars, i + 1, testChunk, chunks)
          ELSE ChunkLoop(words, maxChars, i + 1, word,
                 IF currentChunk # <<>> THEN Append(chunks, currentChunk) ELSE chunks)

\* a split that never closes a chunk
splitByCharacterCountUnbounded(text, maxChars) ==
  <<JoinSpace(SplitWhitespace(text))>>

splitByCharacterCount(text, maxChars) ==
  ChunkLoop(SplitWhitespace(text), maxChars, 1, <<>>, <<>>)

(***************************************************************************)
(* adjustSlideCount                                                        *)
(***************************************************************************)
RECURSIVE MergeLoop(_, _, _, _)
\* for (i = 0; i < slides.length; i += slidesPerMerged) merged.push(batch.join(' '))
MergeLoop(slides, slidesPerMerged, i, merged) ==
  IF i >= Len(slides) THEN merged
  ELSE LET last == IF i + slidesPerMerged < Len(slides)
                   THEN i + slidesPerMerged ELSE Len(slides)
       IN MergeLoop(slides, slidesPerMerged, i + slidesPerMerged,
                    Append(merged, JoinSpace(SubSeq(slides, i + 1, last))))

\* a merge whose batch size is rounded down
MergeSlidesFloorStep(slides, maxSlides) ==
  Slice0(MergeLoop(slides, Len(slides) \div maxSlides, 0, <<>>), maxSlides)

MergeSlides(slides, maxSlides) ==
  Slice0(MergeLoop(slides, CeilDiv(Len(slides), maxSlides), 0, <<>>), maxSlides)

RECURSIVE ExpandLoop(_, _, _, _, _)
\* the first pass of the "too few slides" branch
ExpandLoop(slides, minSlides, targetSlidesPerOriginal, i, acc) ==
  IF i > Len(slides) THEN acc
  ELSE LET slide == slides[i] IN
       IF Len(slide) > ExpandThreshold
          /\ Len(acc) + targetSlidesPerOriginal <= minSlides
       THEN ExpandLoop(slides, minSlides, targetSlidesPerOriginal, i + 1,
              acc \o splitByCharacterCount(slide,
                       CeilDiv(Len(slide), targetSlidesPerOriginal)))
       ELSE ExpandLoop(slides, minSlides, targetSlidesPerOriginal, i + 1,
              Append(acc, slide))

ExpandFirstPass(slides, minSlides) ==
  ExpandLoop(slides, minSlides, CeilDiv(minSlides, Len(slides)), 1, <<>>)

RECURSIVE LargestFrom(_, _, _)
\* expanded.reduce((maxIdx, slide, idx) => slide.length > expanded[maxIdx].length ? idx : maxIdx, 0)
LargestFrom(arr, idx, maxIdx) ==
  IF idx > Len(arr) THEN maxIdx
  ELSE LargestFrom(arr, idx + 1,
         IF Len(arr[idx]) > Len(arr[maxIdx]) THEN idx ELSE maxIdx)

LargestIndex(arr) == LargestFrom(arr, 1, 1)

\* expanded.splice(largestIndex, 1, ...split)
Splice(arr, idx, items) ==
  SubSeq(arr, 1, idx - 1) \o items \o SubSeq(arr, idx + 1, Len(arr))

\* one iteration of the while loop that splits the largest slide
BisectLargest(arr) ==
  LET largestIndex == LargestIndex(arr)
      largest == arr[largestIndex]
  IN Splice(arr, largestIndex,
            splitByCharacterCount(largest, CeilDiv(Len(largest), 2)))

\* expanded.length < minSlides && expanded.length > 0
LoopCondition(arr, minSlides) == Len(arr) < minSlides /\ Len(arr) > 0

\* a break already at the first-pass threshold
LargestIsSplittableAbove100(arr) == Len(arr[LargestIndex(arr)]) > ExpandThreshold

\* largest.length > 50 (otherwise break)
LargestIsSplittable(arr) == Len(arr[LargestIndex(arr)]) > BisectThreshold

RECURSIVE ExpandWhile(_, _)
\* the whole while loop; it is evaluated only on stories whose words are short
ExpandWhile(arr, minSlides) ==
  IF LoopCondition(arr, minSlides) /\ LargestIsSplittable(arr)
  THEN ExpandWhile(BisectLargest(arr), minSlides)
  ELSE arr

adjustSlideCount(slides, minSlides, maxSlides) ==
  IF Len(slides) = 0 THEN <<Placeholder>>
  ELSE IF Len(slides) > maxSlides THEN MergeSlides(slides, maxSlides)
  ELSE IF Len(slides) < minSlides
  THEN Slice0(ExpandWhile(ExpandFirstPass(slides, minSlides), minSlides), maxSlides)
  ELSE slides

\* step 2 of splitStory: split the sentences longer than maxChars on punctuation
SplitLongSentences(slides, maxChars) ==
  Flatten([i \in 1..Len(slides) |->
             IF Len(slides[i]) > maxChars
             THEN splitLongSentence(slides[i], maxChars) ELSE <<slides[i]>>], 1)

\* step 3 of splitStory: split the segments still longer than maxChars on words
SplitLongSegments(slides, maxChars) ==
  Flatten([i \in 1..Len(slides) |->
             IF Len(slides[i]) > maxChars
             THEN splitByCharacterCount(slides[i], maxChars) ELSE <<slides[i]>>], 1)

splitStory(story, options) ==
  IF Len(Trim(story)) = 0 THEN <<>>
  ELSE adjustSlideCount(
         SplitLongSegments(
           SplitLongSentences(splitIntoSentences(Trim(story)), options.maxCharsPerSlide),
           options.maxCharsPerSlide),
         options.minSlides, options.maxSlides)

\* getFirstSentence: the first sentence that step 1 of splitStory finds
getFirstSentence(story) ==
  LET found == splitIntoSentences(Trim(story)) IN
  IF Len(found) = 0 THEN <<>> ELSE found[1]

\* haystack.indexOf(needle) as a position (0 for -1)
IndexOf(haystack, needle) ==
  LET hits == {p \in 1..(Len(haystack) - Len(needle) + 1) :
                 SubSeq(haystack, p, p + Len(needle) - 1) = needle}
  IN IF hits = {} THEN 0 ELSE First(hits)

(***************************************************************************)
(* State.                                                                  *)
(*   splitStory: its arguments, its position and its locals.               *)
(***************************************************************************)
VARIABLES
  text,             \* splitStory's text argument
  opts,             \* { ...DEFAULT_OPTIONS, ...options }
  pc,               \* position in splitStory / adjustSlideCount
  sentences,        \* let slides = splitIntoSentences(trimmedText)
  processedSlides,  \* after step 2
  finalSlides,      \* after step 3: the argument of adjustSlideCount
  expanded,         \* adjustSlideCount's expanded array
  result            \* the returned array

splitVars ==
  <<text, opts, pc, sentences, processedSlides, finalSlides, expanded, result>>

(***************************************************************************)
(*   App: the component's state, its refs, the debounce timer and the      *)
(*   invocations of generateCarousel / regenerateAllSlides /               *)
(*   regenerateSingleSlide that are suspended in createCarouselSlide.      *)
(***************************************************************************)
VARIABLES
  photo,                 \* useState<File | null>: "none" is null
  title,
  storyText,
  slides,                \* the visible slide list
  isGenerating,
  error,                 \* "none" is null
  customSlidePhotos,     \* Map<number, File>
  customSlidePreviews,   \* Map<number, string>
  customSlidePhotosRef,  \* useRef, synced to customSlidePhotos after a render
  slideTextsRef,         \* useRef<string[]>
  regeneratingSlides,    \* Set<number>
  timer,                 \* the 500 ms debounce timer is armed
  procs,                 \* invocation id -> its suspended state
  nextId                 \* the id of the next invocation

appVars ==
  <<photo, title, storyText, slides, isGenerating, error, customSlidePhotos,
    customSlidePreviews, customSlidePhotosRef, slideTextsRef, regeneratingSlides,
    timer, procs, nextId>>

(***************************************************************************)
(*   createCarouselSlide: the text layout of one slide.  Lengths and       *)
(*   positions are kept in tenths of a pixel, so that fontSize * 1.4 and   *)
(*   the halves are whole numbers.                                         *)
(***************************************************************************)
VARIABLES
  slideText,      \* createCarouselSlide's text argument
  customization,  \* fontSize, outlineWidth (0 is unset), textPosition, fontStyle
  lines,          \* wrapText's result
  textY,          \* getTextPosition's result
  lineYs,         \* the y of strokeText / fillText for each line, in order
  layoutPc        \* position in createCarouselSlide

layoutVars == <<slideText, customization, lines, textY, lineYs, layoutPc>>

(***************************************************************************)
(*   createCarouselSlide: the background image it loads and the calls that *)
(*   paint on the canvas context.                                          *)
(***************************************************************************)
VARIABLES
  img,           \* the loaded image: img.width and img.height
  outlineColor,  \* drawText's outlineColor
  ops            \* the painting calls on ctx so far, in order

composeVars == <<img, outlineColor, ops>>

vars == <<splitVars, appVars, layoutVars, composeVars>>

(***************************************************************************)
(* Values of the App state.                                                *)
(***************************************************************************)
\* the number of invocations that are started in one run of the model
MaxInvocations == 3

InvocationIds == 1..MaxInvocations

\* new Map()
EmptyMap == <<>>

\* map.set(key, value) on a copy
MapSet(map, key, value) ==
  [j \in DOMAIN map \cup {key} |-> IF j = key THEN value ELSE map[j]]

\* map.delete(key) on a copy
MapDelete(map, key) == [j \in DOMAIN map \ {key} |-> map[j]]

\* prev.forEach((file, index) => { if (index < length) newMap.set(index, file) })
MapBelow(map, length) == [j \in {x \in DOMAIN map : x < length} |-> map[j]]

\* for (i = 0; i < length; i++) newMap.set(i, value)
MapSetAll(map, length, value) ==
  [j \in DOMAIN map \cup 0..(length - 1) |-> IF j < length THEN value ELSE map[j]]

\* the data URL createCarouselSlide resolves to: a function of its arguments
Render(call) == [photo |-> call.photo, text |-> call.text, num |-> call.num]

\* an empty slot of a sparse array
Hole == [photo |-> "hole", text |-> <<>>, num |-> 0]

\* const updated = [...prev]; updated[index] = newSlide
SetAt(arr, index, value) ==
  [j \in 1..(IF Len(arr) > index + 1 THEN Len(arr) ELSE index + 1) |->
     IF j = index + 1 THEN value
     ELSE IF j <= Len(arr) THEN arr[j] ELSE Hole]

NoCall == [photo |-> "none", text |-> <<>>, num |-> 0]

\* an invocation that is not suspended: never started, returned, or thrown
Settled(status, kind) ==
  [st |-> status, kind |-> kind, photo |-> "none", texts |-> <<>>, i |-> 0,
   index |-> 0, pending |-> NoCall, generated |-> <<>>]

AppInitial ==
  /\ photo = "none"
  /\ title = <<>>
  /\ storyText = <<>>
  /\ slides = <<>>
  /\ isGenerating = FALSE
  /\ error = "none"
  /\ customSlidePhotos = EmptyMap
  /\ customSlidePreviews = EmptyMap
  /\ customSlidePhotosRef = EmptyMap
  /\ slideTextsRef = <<>>
  /\ regeneratingSlides = {}
  /\ procs = [k \in InvocationIds |-> Settled("unused", "none")]
  /\ nextId = 1

(***************************************************************************)
(* Inputs of splitStory: texts built from words of "a", joined by the      *)
(* separators the three stages look for, with lengths around the           *)
(* thresholds 50, 100 and 125.                                             *)
(***************************************************************************)
\* the largest number of repetitions of one short sentence
MaxRepeat == 21

Word(n) == [i \in 1..n |-> "a"]

Separators == { <<" ">>, <<".", " ">>, <<",", " ">>, <<"-">> }

RECURSIVE Repeat(_, _)
Repeat(s, k) == IF k = 0 THEN <<>> ELSE s \o Repeat(s, k - 1)

ShortTokens == { Word(n) \o sep : n \in {1, 26}, sep \in Separators }

LongTokens ==
  { Word(n) \o sep : n \in {BisectThreshold + 1, DefaultMaxCharsPerSlide + 1},
                     sep \in Separators }

Blocks ==
  { Repeat(t, k) : t \in ShortTokens, k \in {1, 5} }
  \cup { Repeat(t, k) : t \in LongTokens, k \in {1, 2} }
  \cup { Repeat(Word(1) \o sep, MaxRepeat) : sep \in { <<".", " ">>, <<",", " ">> } }

SmallInputs ==
  { <<>>, <<" ", "\n">> } \cup { <<" ">> \o b : b \in Blocks }

\* "Hello world. This is a test! Short."
ScenarioA ==
  <<"H", "e", "l", "l", "o", " ", "w", "o", "r", "l", "d", ".", " ", "T", "h",
     "i", "s", " ", "i", "s", " ", "a", " ", "t", "e", "s", "t", "!", " ", "S",
     "h", "o", "r", "t", ".">>

\* one sentence of eight 70-letter words: every word fills a segment of its own
ScenarioB == Trim(Repeat(Word(70) \o <<" ">>, DefaultMinSlides))

\* 40 sentences of 5 characters
ScenarioC == Repeat(Word(4) \o <<".", " ">>, 2 * DefaultMaxSlides)

Scenarios == { ScenarioA, ScenarioB, ScenarioC }

\* one sentence of 13 seven-letter words, 103 characters
ThirteenWords == Trim(Repeat(Word(7) \o <<" ">>, 13))

Inputs ==
  SmallInputs \cup { b1 \o b2 : b1 \in Blocks, b2 \in Blocks } \cup Scenarios
    \cup { ThirteenWords }

\* options other than the defaults: minSlides = maxSlides, a small
\* maxCharsPerSlide, and minSlides > maxSlides
OtherConfigs ==
  { [maxCharsPerSlide |-> 125, minSlides |-> 3, maxSlides |-> 3],
    [maxCharsPerSlide |-> 30, minSlides |-> 1, maxSlides |-> 2],
    [maxCharsPerSlide |-> 125, minSlides |-> 8, maxSlides |-> 1] }

\* overlayOpacity: 0.5, in hundredths
DefaultOverlayOpacity == 50

\* DEFAULT_CUSTOMIZATION of App.tsx; textColor is "#FFFFFF"
DEFAULT_CUSTOMIZATION ==
  [fontStyle |-> "modern",
   textColor |-> <<"#", "F", "F", "F", "F", "F", "F">>,
   textPosition |-> "center",
   backgroundOverlay |-> FALSE,
   overlayOpacity |-> DefaultOverlayOpacity,
   outlineWidth |-> 5,
   fontSize |-> 72]

\* no slide is being laid out
LayoutIdle ==
  /\ slideText = <<>>
  /\ customization = DEFAULT_CUSTOMIZATION
  /\ lines = <<>>
  /\ textY = 0
  /\ lineYs = <<>>
  /\ layoutPc = "idle"
  /\ img = [width |-> 0, height |-> 0]
  /\ outlineColor = <<>>
  /\ ops = <<>>

(***************************************************************************)
(* splitStory, one action per step.                                        *)
(***************************************************************************)
SplitInit ==
  /\ LayoutIdle
  /\ \/ text \in Inputs /\ opts = DEFAULT_OPTIONS
     \/ text \in SmallInputs /\ opts \in OtherConfigs
  /\ pc = "start"
  /\ sentences = <<>>
  /\ processedSlides = <<>>
  /\ finalSlides = <<>>
  /\ expanded = <<>>
  /\ result = <<>>
  /\ AppInitial
  /\ timer = FALSE

\* step 1 without the early return for blank text
Step1NoEarlyReturn ==
  /\ pc = "start"
  /\ sentences' = splitIntoSentences(Trim(text))
  /\ pc' = "step2"
  /\ UNCHANGED <<text, opts, processedSlides, finalSlides, expanded, result, appVars, layoutVars, composeVars>>

\* if (!text || text.trim().length === 0) return [];  Step 1
Step1 ==
  /\ pc = "start"
  /\ IF Len(Trim(text)) = 0
     THEN /\ pc' = "done"
          /\ UNCHANGED sentences
     ELSE /\ sentences' = splitIntoSentences(Trim(text))
          /\ pc' = "step2"
  /\ UNCHANGED <<text, opts, processedSlides, finalSlides, expanded, result, appVars, layoutVars, composeVars>>

\* Step 2: Split long sentences on punctuation
Step2 ==
  /\ pc = "step2"
  /\ processedSlides' = SplitLongSentences(sentences, opts.maxCharsPerSlide)
  /\ pc' = "step3"
  /\ UNCHANGED <<text, opts, sentences, finalSlides, expanded, result, appVars, layoutVars, composeVars>>

\* Step 3: Split any remaining long segments
Step3 ==
  /\ pc = "step3"
  /\ finalSlides' = SplitLongSegments(processedSlides, opts.maxCharsPerSlide)
  /\ pc' = "step4"
  /\ UNCHANGED <<text, opts, sentences, processedSlides, expanded, result, appVars, layoutVars, composeVars>>

\* Step 4: adjustSlideCount up to its while loop
AdjustSlideCount ==
  /\ pc = "step4"
  /\ IF Len(finalSlides) = 0
     THEN /\ result' = <<Placeholder>>
          /\ pc' = "done"
          /\ UNCHANGED expanded
     ELSE IF Len(finalSlides) > opts.maxSlides
     THEN /\ result' = MergeSlides(finalSlides, opts.maxSlides)
          /\ pc' = "done"
          /\ UNCHANGED expanded
     ELSE IF Len(finalSlides) < opts.minSlides
     THEN /\ expanded' = ExpandFirstPass(finalSlides, opts.minSlides)
          /\ pc' = "loop"
          /\ UNCHANGED result
     ELSE /\ result' = finalSlides
          /\ pc' = "done"
          /\ UNCHANGED expanded
  /\ UNCHANGED <<text, opts, sentences, processedSlides, finalSlides, appVars, layoutVars, composeVars>>

\* one iteration of while (expanded.length < minSlides && expanded.length > 0)
\* that does not break
SplitLargest ==
  /\ pc = "loop"
  /\ LoopCondition(expanded, opts.minSlides)
  /\ LargestIsSplittable(expanded)
  /\ expanded' = BisectLargest(expanded)
  /\ UNCHANGED <<text, opts, pc, sentences, processedSlides, finalSlides, result, appVars, layoutVars, composeVars>>

\* the loop ends (condition false, or break): return expanded.slice(0, maxSlides)
ExpandReturn ==
  /\ pc = "loop"
  /\ ~LoopCondition(expanded, opts.minSlides) \/ ~LargestIsSplittable(expanded)
  /\ result' = Slice0(expanded, opts.maxSlides)
  /\ pc' = "done"
  /\ UNCHANGED <<text, opts, sentences, processedSlides, finalSlides, expanded, appVars, layoutVars, composeVars>>

SplitNext == Step1 \/ Step2 \/ Step3 \/ AdjustSlideCount \/ SplitLargest \/ ExpandReturn

SplitSpec == SplitInit /\ [][SplitNext]_vars

(***************************************************************************)
(* splitByCharacterCount on its own: one call with a text and a budget.    *)
(* Its callers pass segments of steps 2 and 3; a segment of step 2 ends    *)
(* with a space when its sentence ends with a punctuation mark.            *)
(***************************************************************************)
\* the largest maxChars of a call
MaxChunkBudget == 12

ChunkTexts ==
  { <<>>,
    <<" ">>,
    <<"a">>,
    <<"a", " ">>,
    <<" ", "a">>,
    <<"a", " ", "b", "b">>,
    <<"a", " ", "b", "b", " ", "c", "c", "c", " ", "d", "d", "d", "d">>,
    <<"a", " ", "b", "b", " ", "c", "c", "c", " ", "d", "d", "d", "d", " ">>,
    <<" ", " ", "a", " ", "b", "b", " ", " ", "c", "c", "c", "\n", "d", "d", "d", "d">>,
    <<"a", "a", "a", "a", "a", "a", " ", "b", "b">>,
    <<"b", "b", " ", "a", "a", "a", "a", "a", "a", " ", "c">>,
    <<"a", " ", "b", " ", "c", " ", "d", " ", "e", " ", "f", " ">> }

ChunkInit ==
  /\ LayoutIdle
  /\ text \in ChunkTexts
  /\ opts \in [maxCharsPerSlide : 1..MaxChunkBudget,
               minSlides : {DefaultMinSlides}, maxSlides : {DefaultMaxSlides}]
  /\ pc = "chunk"
  /\ sentences = <<>>
  /\ processedSlides = <<>>
  /\ finalSlides = <<>>
  /\ expanded = <<>>
  /\ result = <<>>
  /\ AppInitial
  /\ timer = FALSE

\* splitByCharacterCount(text, maxChars) runs and returns
CallSplitByCharacterCount ==
  /\ pc = "chunk"
  /\ result' = splitByCharacterCount(text, opts.maxCharsPerSlide)
  /\ pc' = "chunked"
  /\ UNCHANGED <<text, opts, sentences, processedSlides, finalSlides, expanded,
                 appVars, layoutVars, composeVars>>

ChunkNext == CallSplitByCharacterCount

ChunkSpec == ChunkInit /\ [][ChunkNext]_vars

(***************************************************************************)
(* App.tsx: generateCarousel, regenerateSingleSlide, regenerateAllSlides   *)
(* and the handlers that call them.  An await of createCarouselSlide       *)
(* suspends the invocation; CompositorResolves / CompositorRejects resume  *)
(* it and run it to its next await or to its end.                          *)
(***************************************************************************)
Stories == { <<>>, <<"a", ".">> }

Titles == { <<>>, <<"T">> }

Photos == {"P1"}

CustomPhotos == {"Q1"}

\* slide texts that keep the first sentence in the story that is split
SlideTextsOfWholeStory(titleText, story) ==
  LET firstSlideText ==
        IF Len(Trim(titleText)) > 0 THEN Trim(titleText) ELSE getFirstSentence(story)
  IN (IF Len(firstSlideText) > 0 THEN <<firstSlideText>> ELSE <<>>)
       \o splitStory(story, DEFAULT_OPTIONS)

\* generateCarousel: the text of the first slide and of the remaining slides
SlideTextsOf(titleText, story) ==
  LET firstSentence == getFirstSentence(story)
      firstSlideText ==
        IF Len(Trim(titleText)) > 0 THEN Trim(titleText) ELSE firstSentence
      trimmedStory == Trim(story)
      firstSentenceIndex == IndexOf(trimmedStory, firstSentence)
      remainingStoryText ==
        IF Len(Trim(titleText)) > 0 THEN story
        ELSE IF Len(firstSentence) > 0 /\ firstSentenceIndex # 0
             THEN Trim(Substring(trimmedStory,
                                 firstSentenceIndex + Len(firstSentence),
                                 Len(trimmedStory)))
             ELSE story
      textSegments ==
        IF Len(Trim(remainingStoryText)) > 0
        THEN splitStory(remainingStoryText, DEFAULT_OPTIONS)
        ELSE <<>>
  IN (IF Len(firstSlideText) > 0 THEN <<firstSlideText>> ELSE <<>>) \o textSegments

\* customSlidePhotosRef.current.get(i) || photo
\* a photo choice that ignores the per-slide overrides
SlidePhotoForDefaultOnly(ref, i, defaultPhoto) == defaultPhoto

SlidePhotoFor(ref, i, defaultPhoto) ==
  IF i \in DOMAIN ref THEN ref[i] ELSE defaultPhoto

\* the invocation record at its first await
Suspended(kind, defaultPhoto, texts, index, call) ==
  [st |-> "running", kind |-> kind, photo |-> defaultPhoto, texts |-> texts,
   i |-> 0, index |-> index, pending |-> call, generated |-> <<>>]

AppInit ==
  /\ LayoutIdle
  /\ AppInitial
  /\ timer = TRUE
  /\ text = <<>>
  /\ opts = DEFAULT_OPTIONS
  /\ pc = "idle"
  /\ sentences = <<>>
  /\ processedSlides = <<>>
  /\ finalSlides = <<>>
  /\ expanded = <<>>
  /\ result = <<>>

\* the model follows the user until MaxInvocations invocations have been started
Budget == nextId <= MaxInvocations

\* onTextChange={setStoryText}; the effect re-arms the debounce timer
SetStoryText(s) ==
  /\ Budget
  /\ s # storyText
  /\ storyText' = s
  /\ timer' = TRUE
  /\ UNCHANGED <<photo, title, slides, isGenerating, error, customSlidePhotos,
                 customSlidePreviews, customSlidePhotosRef, slideTextsRef,
                 regeneratingSlides, procs, nextId, splitVars, layoutVars, composeVars>>

\* onTitleChange={setTitle}
SetTitle(t) ==
  /\ Budget
  /\ t # title
  /\ title' = t
  /\ timer' = TRUE
  /\ UNCHANGED <<photo, storyText, slides, isGenerating, error, customSlidePhotos,
                 customSlidePreviews, customSlidePhotosRef, slideTextsRef,
                 regeneratingSlides, procs, nextId, splitVars, layoutVars, composeVars>>

HandlePhotoChange(newPhoto) ==
  /\ Budget
  /\ newPhoto # photo
  /\ photo' = newPhoto
  /\ timer' = TRUE
  /\ IF newPhoto = "none"
     THEN /\ customSlidePhotos' = EmptyMap
          /\ customSlidePreviews' = EmptyMap
          /\ customSlidePhotosRef' = EmptyMap
     ELSE UNCHANGED <<customSlidePhotos, customSlidePreviews, customSlidePhotosRef>>
  /\ UNCHANGED <<title, storyText, slides, isGenerating, error, slideTextsRef,
                 regeneratingSlides, procs, nextId, splitVars, layoutVars, composeVars>>

\* the timer fires: generateCarousel up to its first await
GenerateCarousel ==
  /\ Budget
  /\ timer
  /\ timer' = FALSE
  /\ IF photo = "none" \/ Len(Trim(storyText)) = 0
     THEN /\ slides' = <<>>
          /\ slideTextsRef' = <<>>
          /\ UNCHANGED <<isGenerating, error, customSlidePhotos, customSlidePreviews,
                         customSlidePhotosRef, procs, nextId>>
     ELSE LET slideTexts == SlideTextsOf(title, storyText) IN
          IF Len(slideTexts) = 0
          THEN /\ slides' = <<>>
               /\ slideTextsRef' = <<>>
               /\ error' = "none"
               /\ isGenerating' = FALSE
               /\ UNCHANGED <<customSlidePhotos, customSlidePreviews,
                              customSlidePhotosRef, procs, nextId>>
          ELSE /\ nextId <= MaxInvocations
               /\ isGenerating' = TRUE
               /\ error' = "none"
               /\ slideTextsRef' = slideTexts
               /\ customSlidePhotos' = MapBelow(customSlidePhotos, Len(slideTexts))
               /\ customSlidePreviews' = MapBelow(customSlidePreviews, Len(slideTexts))
               /\ customSlidePhotosRef' = customSlidePhotos'
               /\ procs' = [procs EXCEPT ![nextId] =
                    Suspended("generate", photo, slideTexts, 0,
                      [photo |-> SlidePhotoFor(customSlidePhotosRef, 0, photo),
                       text |-> slideTexts[1], num |-> 1])]
               /\ nextId' = nextId + 1
               /\ UNCHANGED slides
  /\ UNCHANGED <<photo, title, storyText, regeneratingSlides, splitVars, layoutVars, composeVars>>

\* regenerateSingleSlide(index, overridePhoto) up to its await; slidePhoto is
\* overridePhoto || photo
RegenerateSingleSlide(index, slidePhoto) ==
  IF photo = "none" \/ Len(slideTextsRef) = 0 \/ index >= Len(slideTextsRef)
  THEN UNCHANGED <<regeneratingSlides, error, procs, nextId>>
  ELSE /\ nextId <= MaxInvocations
       /\ regeneratingSlides' = regeneratingSlides \cup {index}
       /\ error' = "none"
       /\ procs' = [procs EXCEPT ![nextId] =
            Suspended("regenOne", photo, <<>>, index,
              [photo |-> slidePhoto, text |-> slideTextsRef[index + 1],
               num |-> index + 1])]
       /\ nextId' = nextId + 1

\* regenerateAllSlides up to its first await, reading the ref as it is now
RegenerateAll ==
  IF photo = "none" \/ Len(slideTextsRef) = 0
  THEN UNCHANGED <<isGenerating, error, procs, nextId>>
  ELSE /\ nextId <= MaxInvocations
       /\ isGenerating' = TRUE
       /\ error' = "none"
       /\ procs' = [procs EXCEPT ![nextId] =
            Suspended("regenAll", photo, <<>>, 0,
              [photo |-> SlidePhotoFor(customSlidePhotosRef, 0, photo),
               text |-> slideTextsRef[1], num |-> 1])]
       /\ nextId' = nextId + 1

\* CarouselPreview renders the card of a slide and enables its buttons
CardEnabled(index) ==
  /\ Budget
  /\ ~isGenerating
  /\ index < Len(slides)
  /\ slides[index + 1] # Hole
  /\ index \notin regeneratingSlides

HandleSlidePhotoChange(index, file) ==
  /\ CardEnabled(index)
  /\ customSlidePhotos' = MapSet(customSlidePhotos, index, file)
  /\ customSlidePreviews' = MapSet(customSlidePreviews, index, file)
  /\ customSlidePhotosRef' = customSlidePhotos'
  /\ RegenerateSingleSlide(index, file)
  /\ UNCHANGED <<photo, title, storyText, slides, isGenerating, slideTextsRef,
                 timer, splitVars, layoutVars, composeVars>>

HandleResetSlidePhoto(index) ==
  /\ CardEnabled(index)
  /\ index \in DOMAIN customSlidePreviews
  /\ customSlidePhotos' = MapDelete(customSlidePhotos, index)
  /\ customSlidePreviews' = MapDelete(customSlidePreviews, index)
  /\ customSlidePhotosRef' = customSlidePhotos'
  /\ RegenerateSingleSlide(index, photo)
  /\ UNCHANGED <<photo, title, storyText, slides, isGenerating, slideTextsRef,
                 timer, splitVars, layoutVars, composeVars>>

HandleApplyPhotoToAll(sourceIndex) ==
  /\ CardEnabled(sourceIndex)
  /\ sourceIndex \in DOMAIN customSlidePreviews
  /\ IF sourceIndex \notin DOMAIN customSlidePhotosRef
     THEN UNCHANGED <<customSlidePhotos, customSlidePreviews, customSlidePhotosRef,
                      isGenerating, error, procs, nextId>>
     ELSE /\ customSlidePhotos' =
               MapSetAll(customSlidePhotos, Len(slideTextsRef),
                         customSlidePhotosRef[sourceIndex])
          /\ customSlidePreviews' =
               MapSetAll(customSlidePreviews, Len(slideTextsRef),
                         customSlidePreviews[sourceIndex])
          /\ RegenerateAll
          /\ customSlidePhotosRef' = customSlidePhotos'
  /\ UNCHANGED <<photo, title, storyText, slides, slideTextsRef,
                 regeneratingSlides, timer, splitVars, layoutVars, composeVars>>

\* the "Regenerate All Slides" button
RegenerateAllSlides ==
  /\ Budget
  /\ ~isGenerating
  /\ Len(slides) > 0
  /\ regeneratingSlides = {}
  /\ RegenerateAll
  /\ UNCHANGED <<photo, title, storyText, slides, customSlidePhotos,
                 customSlidePreviews, customSlidePhotosRef, slideTextsRef,
                 regeneratingSlides, timer, splitVars, layoutVars, composeVars>>

\* a loop that publishes the list after every rendered slide
GenerateContinuesPublishing(k) ==
  LET p == procs[k]
      generatedSlides == Append(p.generated, Render(p.pending))
      i == p.i + 1
  IN /\ slides' = generatedSlides
     /\ IF i < Len(p.texts)
        THEN /\ procs' = [procs EXCEPT ![k] =
                  [p EXCEPT !.generated = generatedSlides, !.i = i,
                            !.pending = [photo |-> SlidePhotoFor(customSlidePhotosRef, i, p.photo),
                                         text |-> p.texts[i + 1], num |-> i + 1]]]
             /\ UNCHANGED isGenerating
        ELSE /\ isGenerating' = FALSE
             /\ procs' = [procs EXCEPT ![k] = Settled("done", p.kind)]

\* generateCarousel after a slide is rendered: the next iteration or setSlides
GenerateContinues(k) ==
  LET p == procs[k]
      generatedSlides == Append(p.generated, Render(p.pending))
      i == p.i + 1
  IN IF i < Len(p.texts)
     THEN /\ procs' = [procs EXCEPT ![k] =
               [p EXCEPT !.generated = generatedSlides, !.i = i,
                         !.pending = [photo |-> SlidePhotoFor(customSlidePhotosRef, i, p.photo),
                                      text |-> p.texts[i + 1], num |-> i + 1]]]
          /\ UNCHANGED <<slides, isGenerating>>
     ELSE /\ slides' = generatedSlides
          /\ isGenerating' = FALSE
          /\ procs' = [procs EXCEPT ![k] = Settled("done", p.kind)]

\* regenerateAllSlides after a slide is rendered
RegenerateAllContinues(k) ==
  LET p == procs[k]
      generatedSlides == Append(p.generated, Render(p.pending))
      i == p.i + 1
  IN IF i < Len(slideTextsRef)
     THEN /\ procs' = [procs EXCEPT ![k] =
               [p EXCEPT !.generated = generatedSlides, !.i = i,
                         !.pending = [photo |-> SlidePhotoFor(customSlidePhotosRef, i, p.photo),
                                      text |-> slideTextsRef[i + 1], num |-> i + 1]]]
          /\ UNCHANGED <<slides, isGenerating>>
     ELSE /\ slides' = generatedSlides
          /\ isGenerating' = FALSE
          /\ procs' = [procs EXCEPT ![k] = Settled("done", p.kind)]

\* the awaited createCarouselSlide resolves
CompositorResolves(k) ==
  /\ procs[k].st = "running"
  /\ CASE procs[k].kind = "generate" ->
            /\ GenerateContinues(k)
            /\ UNCHANGED <<error, slideTextsRef, regeneratingSlides>>
       [] procs[k].kind = "regenAll" ->
            /\ RegenerateAllContinues(k)
            /\ UNCHANGED <<error, slideTextsRef, regeneratingSlides>>
       [] OTHER ->
            /\ slides' = SetAt(slides, procs[k].index, Render(procs[k].pending))
            /\ regeneratingSlides' = regeneratingSlides \ {procs[k].index}
            /\ procs' = [procs EXCEPT ![k] = Settled("done", procs[k].kind)]
            /\ UNCHANGED <<error, slideTextsRef, isGenerating>>
  /\ UNCHANGED <<photo, title, storyText, customSlidePhotos, customSlidePreviews,
                 customSlidePhotosRef, timer, nextId, splitVars, layoutVars, composeVars>>

\* the awaited createCarouselSlide rejects: the catch and finally blocks
CompositorRejects(k) ==
  /\ procs[k].st = "running"
  /\ procs' = [procs EXCEPT ![k] = Settled("failed", procs[k].kind)]
  /\ CASE procs[k].kind = "generate" ->
            /\ error' = "Failed to generate carousel. Please try again."
            /\ slides' = <<>>
            /\ slideTextsRef' = <<>>
            /\ isGenerating' = FALSE
            /\ UNCHANGED regeneratingSlides
       [] procs[k].kind = "regenAll" ->
            /\ error' = "Failed to regenerate carousel. Please try again."
            /\ isGenerating' = FALSE
            /\ UNCHANGED <<slides, slideTextsRef, regeneratingSlides>>
       [] OTHER ->
            /\ error' = "Failed to regenerate slide. Please try again."
            /\ regeneratingSlides' = regeneratingSlides \ {procs[k].index}
            /\ UNCHANGED <<slides, slideTextsRef, isGenerating>>
  /\ UNCHANGED <<photo, title, storyText, customSlidePhotos, customSlidePreviews,
                 customSlidePhotosRef, timer, nextId, splitVars, layoutVars, composeVars>>

SlideIndexes == 0..1

UserActs ==
  \/ \E s \in Stories : SetStoryText(s)
  \/ \E t \in Titles : SetTitle(t)
  \/ \E newPhoto \in Photos \cup {"none"} : HandlePhotoChange(newPhoto)
  \/ GenerateCarousel
  \/ \E index \in SlideIndexes, file \in CustomPhotos : HandleSlidePhotoChange(index, file)
  \/ \E index \in SlideIndexes : HandleResetSlidePhoto(index)
  \/ \E index \in SlideIndexes : HandleApplyPhotoToAll(index)
  \/ RegenerateAllSlides

AppNext ==
  \/ UserActs
  \/ \E k \in InvocationIds : CompositorResolves(k)
  \/ \E k \in InvocationIds : CompositorRejects(k)

AppSpec == AppInit /\ [][AppNext]_vars

(***************************************************************************)
(* One generation over a wide range of stories and titles: the user has    *)
(* chosen a photo and entered a title and a story, the debounce timer      *)
(* fires generateCarousel and the compositor renders the slides.           *)
(***************************************************************************)
TitleInputs == { <<>>, <<" ">>, <<"T">>, <<" ", "T", " ">> }

\* every word of the story is short enough for the expansion loop to end
ShortWords(story) ==
  LET words == SplitWhitespace(story)
  IN \A j \in 1..Len(words) : Len(words[j]) <= BisectThreshold

StoryInputs ==
  { story \in SmallInputs : ShortWords(story) }
    \cup { Repeat(Word(1) \o <<".", " ">>, DefaultMaxSlides),
           <<"a", ".", " ", "b", "!", " ", " ", "c", " ", "d">>,
           <<"a", ".", " ", "a", ".">> }

GenerateInit ==
  /\ LayoutIdle
  /\ photo \in Photos
  /\ title \in TitleInputs
  /\ storyText \in StoryInputs
  /\ slides = <<>>
  /\ isGenerating = FALSE
  /\ error = "none"
  /\ customSlidePhotos = EmptyMap
  /\ customSlidePreviews = EmptyMap
  /\ customSlidePhotosRef = EmptyMap
  /\ slideTextsRef = <<>>
  /\ regeneratingSlides = {}
  /\ procs = [k \in InvocationIds |-> Settled("unused", "none")]
  /\ nextId = 1
  /\ timer = TRUE
  /\ text = <<>>
  /\ opts = DEFAULT_OPTIONS
  /\ pc = "idle"
  /\ sentences = <<>>
  /\ processedSlides = <<>>
  /\ finalSlides = <<>>
  /\ expanded = <<>>
  /\ result = <<>>

GenerateNext ==
  \/ GenerateCarousel
  \/ \E k \in InvocationIds : CompositorResolves(k)
  \/ \E k \in InvocationIds : CompositorRejects(k)

GenerateSpec == GenerateInit /\ [][GenerateNext]_vars

(***************************************************************************)
(* imageProcessor: wrapText, getTextPosition and drawText.                 *)
(***************************************************************************)
CANVAS_WIDTH == 1080
CANVAS_HEIGHT == 1350

\* customization.fontSize || 72 and customization.outlineWidth || 5
DefaultFontSize == 72
DefaultOutlineWidth == 5

\* const maxWidth = CANVAS_WIDTH - 160
TextMargin == 160

\* pixels in tenths of a pixel
Px(n) == 10 * n

\* half of n pixels, in tenths of a pixel
HalfPx(n) == 5 * n

FontSizeOf(c) == IF c.fontSize = 0 THEN DefaultFontSize ELSE c.fontSize

OutlineWidthOf(c) == IF c.outlineWidth = 0 THEN DefaultOutlineWidth ELSE c.outlineWidth

\* const lineHeight = fontSize * 1.4
LineHeight(c) == 14 * FontSizeOf(c)

RECURSIVE SplitSpaceLoop(_, _, _)
SplitSpaceLoop(s, start, acc) ==
  LET next == {i \in start..Len(s) : s[i] = " "}
  IN IF next = {} THEN Append(acc, SubSeq(s, start, Len(s)))
     ELSE SplitSpaceLoop(s, First(next) + 1, Append(acc, SubSeq(s, start, First(next) - 1)))

\* text.split(' ')
SplitSpaces(s) == SplitSpaceLoop(s, 1, <<>>)

NarrowChars == {" ", "i", ".", ",", "!", "\n"}
WideChars == {"W", "H"}

\* ctx.measureText(str).width for the font set from the customization: the
\* advance widths of the characters add up; a character is 0.3, 0.5 or 0.9 em
\* wide, 0.1 em more in the bold family
measureText(c, str) ==
  LET narrow == Cardinality({i \in 1..Len(str) : str[i] \in NarrowChars})
      wide == Cardinality({i \in 1..Len(str) : str[i] \in WideChars})
      tenthsOfEm == 3 * narrow + 9 * wide + 5 * (Len(str) - narrow - wide)
                      + (IF c.fontStyle = "bold" THEN Len(str) ELSE 0)
  IN FontSizeOf(c) * tenthsOfEm

RECURSIVE WrapLoopMeasuresWord(_, _, _, _, _, _)
\* a loop that measures the word instead of the line it would extend
WrapLoopMeasuresWord(c, words, maxWidth, i, currentLine, acc) ==
  IF i > Len(words)
  THEN IF currentLine # <<>> THEN Append(acc, currentLine) ELSE acc
  ELSE LET word == words[i]
           testLine == IF currentLine # <<>>
                       THEN currentLine \o <<" ">> \o word ELSE word
       IN IF measureText(c, word) > maxWidth /\ currentLine # <<>>
          THEN WrapLoopMeasuresWord(c, words, maxWidth, i + 1, word,
                                    Append(acc, currentLine))
          ELSE WrapLoopMeasuresWord(c, words, maxWidth, i + 1, testLine, acc)

RECURSIVE WrapLoop(_, _, _, _, _, _)
\* for (const word of words) { ... } if (currentLine) lines.push(currentLine)
WrapLoop(c, words, maxWidth, i, currentLine, acc) ==
  IF i > Len(words)
  THEN IF currentLine # <<>> THEN Append(acc, currentLine) ELSE acc
  ELSE LET word == words[i]
           testLine == IF currentLine # <<>>
                       THEN currentLine \o <<" ">> \o word ELSE word
       IN IF measureText(c, testLine) > maxWidth /\ currentLine # <<>>
          THEN WrapLoop(c, words, maxWidth, i + 1, word, Append(acc, currentLine))
          ELSE WrapLoop(c, words, maxWidth, i + 1, testLine, acc)

wrapText(c, str, maxWidth) ==
  LET wrapped == WrapLoop(c, SplitSpaces(str), maxWidth, 1, <<>>, <<>>)
  IN IF Len(wrapped) > 0 THEN wrapped ELSE <<str>>

\* the y of the centre of the text block
getTextPosition(position, textHeight, outlineWidth) ==
  CASE position = "top" ->
         Px(80) + textHeight \div 2 + HalfPx(outlineWidth) + Px(20)
    [] position = "bottom" ->
         Px(CANVAS_HEIGHT) - Px(80) - textHeight \div 2 - HalfPx(outlineWidth) - Px(20)
    [] OTHER -> HalfPx(CANVAS_HEIGHT)

\* const minY = fontSize / 2 + outlineWidth / 2 + 10
MinY(c) == HalfPx(FontSizeOf(c)) + HalfPx(OutlineWidthOf(c)) + Px(10)

\* const maxY = CANVAS_HEIGHT - fontSize / 2 - outlineWidth / 2 - 10
MaxY(c) == Px(CANVAS_HEIGHT) - HalfPx(FontSizeOf(c)) - HalfPx(OutlineWidthOf(c)) - Px(10)

\* drawText's startY after the two bound checks, for count lines
StartY(c, count, yPosition) ==
  LET totalHeight == count * LineHeight(c)
      centred == yPosition - totalHeight \div 2
      lowered == IF centred < MinY(c) THEN MinY(c) ELSE centred
      lastLineY == lowered + (count - 1) * LineHeight(c)
  IN IF lastLineY > MaxY(c) THEN MaxY(c) - (count - 1) * LineHeight(c) ELSE lowered

\* the y at which drawText draws each line: startY + index * lineHeight
drawText(c, str, yPosition) ==
  LET wrapped == wrapText(c, str, Px(CANVAS_WIDTH - TextMargin))
  IN [j \in 1..Len(wrapped) |->
        StartY(c, Len(wrapped), yPosition) + (j - 1) * LineHeight(c)]

(***************************************************************************)
(* imageProcessor: isWhiteColor and getInverseOutlineColor.                *)
(***************************************************************************)
UpperCase ==
  <<"A", "B", "C", "D", "E", "F", "G", "H", "I", "J", "K", "L", "M",
    "N", "O", "P", "Q", "R", "S", "T", "U", "V", "W", "X", "Y", "Z">>

LowerCase ==
  <<"a", "b", "c", "d", "e", "f", "g", "h", "i", "j", "k", "l", "m",
    "n", "o", "p", "q", "r", "s", "t", "u", "v", "w", "x", "y", "z">>

\* String.prototype.toLowerCase
toLowerCase(s) ==
  [i \in 1..Len(s) |->
     IF \E k \in 1..Len(UpperCase) : UpperCase[k] = s[i]
     THEN LowerCase[CHOOSE k \in 1..Len(UpperCase) : UpperCase[k] = s[i]]
     ELSE s[i]]

\* the digits of radix 16 in the order of their values; the first ten are \d
HexDigits ==
  <<"0", "1", "2", "3", "4", "5", "6", "7", "8", "9", "a", "b", "c", "d", "e", "f">>

DigitsOf(radix) == {HexDigits[k] : k \in 1..radix}

DigitValue(ch) == (CHOOSE k \in 1..Len(HexDigits) : HexDigits[k] = ch) - 1

RECURSIVE DigitsValue(_, _)
\* the number a run of digits denotes
DigitsValue(digits, radix) ==
  IF digits = <<>> THEN 0
  ELSE radix * DigitsValue(SubSeq(digits, 1, Len(digits) - 1), radix)
         + DigitValue(digits[Len(digits)])

\* parseInt(str, radix) of a lower-case string: leading whitespace, a sign and
\* (radix 16) a 0x prefix are skipped and the longest run of digits is read.
\* The result is {n}, or {} for NaN
parseInt(str, radix) ==
  LET start == RunEnd(str, 1, Whitespace)
      signed == start <= Len(str) /\ str[start] \in {"+", "-"}
      afterSign == IF signed THEN start + 1 ELSE start
      prefixed == /\ radix = 16
                  /\ afterSign + 1 <= Len(str)
                  /\ str[afterSign] = "0"
                  /\ str[afterSign + 1] = "x"
      first == IF prefixed THEN afterSign + 2 ELSE afterSign
      end == RunEnd(str, first, DigitsOf(radix))
      n == DigitsValue(Substring(str, first, end - 1), radix)
  IN IF end = first THEN {}
     ELSE IF signed /\ str[start] = "-" THEN {0 - n} ELSE {n}

\* (r + g + b) / 3 > 200; a comparison with NaN is false
AverageAbove200(r, g, b) ==
  /\ r # {} /\ g # {} /\ b # {}
  /\ (CHOOSE n \in r : TRUE) + (CHOOSE n \in g : TRUE) + (CHOOSE n \in b : TRUE) > 600

\* hex.split('').map(char => char + char).join('')
DoubleChars(hex) == [i \in 1..(2 * Len(hex)) |-> hex[(i + 1) \div 2]]

\* normalizedColor.match(/\d+/g): the maximal runs of decimal digits, in order
DigitRuns(s) ==
  LET starts == {i \in 1..Len(s) :
                   /\ s[i] \in DigitsOf(10)
                   /\ (i = 1 \/ s[i - 1] \notin DigitsOf(10))}
      nth(k) == CHOOSE i \in starts : Cardinality({j \in starts : j < i}) = k - 1
  IN [k \in 1..Cardinality(starts) |->
        SubSeq(s, nth(k), RunEnd(s, nth(k), DigitsOf(10)) - 1)]

\* 'white' and the other spellings of the default check
WhiteSpellings ==
  { <<"#", "f", "f", "f", "f", "f", "f">>,
    <<"#", "f", "f", "f">>,
    <<"w", "h", "i", "t", "e">>,
    <<"r", "g", "b", "(", "2", "5", "5", ",", " ", "2", "5", "5", ",", " ",
      "2", "5", "5", ")">> }

isWhiteColor(color) ==
  LET normalizedColor == toLowerCase(Trim(color))
      startsWithHash == Len(normalizedColor) >= 1 /\ normalizedColor[1] = "#"
      replaced == IF startsWithHash THEN Tail(normalizedColor) ELSE normalizedColor
      hex == IF Len(replaced) = 3 THEN DoubleChars(replaced) ELSE replaced
      matches == DigitRuns(normalizedColor)
  IN IF startsWithHash /\ Len(hex) = 6
     THEN AverageAbove200(parseInt(SubSeq(hex, 1, 2), 16),
                          parseInt(SubSeq(hex, 3, 4), 16),
                          parseInt(SubSeq(hex, 5, 6), 16))
     ELSE IF IndexOf(normalizedColor, <<"r", "g", "b">>) # 0 /\ Len(matches) >= 3
     THEN AverageAbove200(parseInt(matches[1], 10), parseInt(matches[2], 10),
                          parseInt(matches[3], 10))
     ELSE normalizedColor \in WhiteSpellings

\* '#000000' and '#FFFFFF'
Black == <<"#", "0", "0", "0", "0", "0", "0">>
White == <<"#", "F", "F", "F", "F", "F", "F">>

getInverseOutlineColor(textColor) == IF isWhiteColor(textColor) THEN Black ELSE White

(***************************************************************************)
(* imageProcessor: createCarouselSlide's painting calls.  A painting call  *)
(* is a record; its coordinates are whole numbers over its den.            *)
(***************************************************************************)
\* a comparison that fits the other dimension
IsTaller(image) == image.width * CANVAS_HEIGHT < CANVAS_WIDTH * image.height

\* imgAspect > canvasAspect, for positive sizes
IsWider(image) == image.width * CANVAS_HEIGHT > CANVAS_WIDTH * image.height

\* drawX, drawY, drawWidth and drawHeight: over 2 * img.height when the
\* height is fitted and over 2 * img.width when the width is fitted
CoverRect(image) ==
  IF IsWider(image)
  THEN [x |-> CANVAS_WIDTH * image.height - CANVAS_HEIGHT * image.width,
        y |-> 0,
        width |-> 2 * CANVAS_HEIGHT * image.width,
        height |-> 2 * CANVAS_HEIGHT * image.height,
        den |-> 2 * image.height]
  ELSE [x |-> 0,
        y |-> CANVAS_HEIGHT * image.width - CANVAS_WIDTH * image.height,
        width |-> 2 * CANVAS_WIDTH * image.width,
        height |-> 2 * CANVAS_WIDTH * image.height,
        den |-> 2 * image.width]

\* ctx.drawImage(img, drawX, drawY, drawWidth, drawHeight)
DrawImageOp(image) ==
  LET r == CoverRect(image)
  IN [op |-> "drawImage", x |-> r.x, y |-> r.y, width |-> r.width,
      height |-> r.height, den |-> r.den, text |-> <<>>, style |-> <<>>,
      alpha |-> 100, lineWidth |-> 0]

\* drawOverlay: fillStyle rgba(0, 0, 0, opacity), the whole canvas
FillRectOp(opacity) ==
  [op |-> "fillRect", x |-> 0, y |-> 0, width |-> CANVAS_WIDTH,
   height |-> CANVAS_HEIGHT, den |-> 1, text |-> <<>>, style |-> Black,
   alpha |-> opacity, lineWidth |-> 0]

\* ctx.strokeText(line, x, y) and ctx.fillText(line, x, y), x = CANVAS_WIDTH / 2
TextOp(kind, line, y, style, lineWidth) ==
  [op |-> kind, x |-> HalfPx(CANVAS_WIDTH), y |-> y, width |-> 0, height |-> 0,
   den |-> 10, text |-> line, style |-> style, alpha |-> 100,
   lineWidth |-> lineWidth]

\* a count without the threshold of 10
StrokeCountCeil(outlineWidth) == CeilDiv(outlineWidth, 8)

\* outlineWidth > 10 ? Math.ceil(outlineWidth / 8) : 1
StrokeCount(outlineWidth) ==
  IF outlineWidth > 10 THEN CeilDiv(outlineWidth, 8) ELSE 1

\* the calls of one iteration of lines.forEach
PaintLine(c, line, y) ==
  [i \in 1..StrokeCount(OutlineWidthOf(c)) |->
     TextOp("strokeText", line, y, getInverseOutlineColor(c.textColor),
            OutlineWidthOf(c))]
    \o <<TextOp("fillText", line, y, c.textColor, 0)>>

\* the calls of lines.forEach, in order
PaintLines(c, str, yPosition) ==
  LET wrapped == wrapText(c, str, Px(CANVAS_WIDTH - TextMargin))
      ys == drawText(c, str, yPosition)
  IN Flatten([j \in 1..Len(wrapped) |-> PaintLine(c, wrapped[j], ys[j])], 1)

\* the longest slide text of the model is MaxLayoutWords words long
MaxLayoutWords == 25

WideWord(n) == [i \in 1..n |-> "W"]

LayoutTexts ==
  { <<>>, <<" ">>, <<" ", "a">>, <<"a", " ">>, <<"a", " ", " ", "b">>,
    <<"a", "\n", "b">>, ScenarioA,
    WideWord(12),
    Word(4) \o <<" ">> \o Word(4) \o <<" ">> \o WideWord(12) \o <<" ", " ">> \o WideWord(12) }
  \cup { Trim(Repeat(Word(4) \o <<" ">>, k)) : k \in 1..MaxLayoutWords }

Customizations ==
  [fontSize : {0, DefaultFontSize, 2 * DefaultFontSize},
   outlineWidth : {0, DefaultOutlineWidth, 30},
   textPosition : {"top", "center", "bottom"},
   fontStyle : {"modern", "bold"},
   textColor : {DEFAULT_CUSTOMIZATION.textColor},
   backgroundOverlay : {FALSE},
   overlayOpacity : {DefaultOverlayOpacity}]

LayoutInit ==
  /\ slideText \in LayoutTexts
  /\ customization \in Customizations
  /\ lines = <<>>
  /\ textY = 0
  /\ lineYs = <<>>
  /\ layoutPc = "start"
  /\ img = [width |-> CANVAS_WIDTH, height |-> CANVAS_HEIGHT]
  /\ outlineColor = <<>>
  /\ ops = <<DrawImageOp(img)>>
  /\ AppInitial
  /\ timer = FALSE
  /\ text = <<>>
  /\ opts = DEFAULT_OPTIONS
  /\ pc = "idle"
  /\ sentences = <<>>
  /\ processedSlides = <<>>
  /\ finalSlides = <<>>
  /\ expanded = <<>>
  /\ result = <<>>

\* createCarouselSlide: wrap the text to get its height, and choose the anchor
MeasureText ==
  /\ layoutPc = "start"
  /\ lines' = wrapText(customization, slideText, Px(CANVAS_WIDTH - TextMargin))
  /\ textY' = getTextPosition(customization.textPosition,
                              Len(lines') * LineHeight(customization),
                              OutlineWidthOf(customization))
  /\ layoutPc' = "measured"
  /\ UNCHANGED <<slideText, customization, lineYs, splitVars, appVars, composeVars>>

\* drawText(ctx, text, customization, textY)
DrawText ==
  /\ layoutPc = "measured"
  /\ lineYs' = drawText(customization, slideText, textY)
  /\ outlineColor' = getInverseOutlineColor(customization.textColor)
  /\ ops' = ops \o PaintLines(customization, slideText, textY)
  /\ layoutPc' = "drawn"
  /\ UNCHANGED <<slideText, customization, lines, textY, img, splitVars, appVars>>

LayoutNext == MeasureText \/ DrawText

LayoutSpec == LayoutInit /\ [][LayoutNext]_vars

(***************************************************************************)
(* createCarouselSlide from the loaded image to the last painted line,     *)
(* over text colours, outline widths, overlays and image sizes.            *)
(***************************************************************************)
\* text colours: hex values around the average 200, rgb() and rgba() values,
\* the words white and black, and strings that are none of these
TextColors ==
  { <<"#", "F", "F", "F", "F", "F", "F">>,
    <<"#", "0", "0", "0", "0", "0", "0">>,
    <<"#", "f", "f", "f">>,
    <<"#", "1", "0", "1", "0", "1", "0">>,
    <<"#", "c", "8", "c", "8", "c", "8">>,
    <<"#", "c", "9", "c", "8", "c", "8">>,
    <<"#", "C", "8", "C", "8", "C", "9">>,
    <<" ", "W", "h", "i", "t", "e", " ">>,
    <<"b", "l", "a", "c", "k">>,
    <<>>,
    <<"r", "g", "b", "(", "2", "5", "5", ",", " ", "2", "5", "5", ",", " ", "2", "5", "5", ")">>,
    <<"r", "g", "b", "(", "2", "0", "0", ",", " ", "2", "0", "0", ",", " ", "2", "0", "0", ")">>,
    <<"r", "g", "b", "a", "(", "2", "0", "0", ",", " ", "2", "0", "0", ",", " ", "2", "0", "1", ",", " ", "0", ")">>,
    <<"R", "G", "B", "(", "2", "5", "5", ",", "0", ",", "0", ")">>,
    <<"r", "g", "b", "(", "0", ".", "9", "9", "9", ",", " ", "0", ",", " ", "0", ")">>,
    <<"#", "f", "f", "f", "f">>,
    <<"#", "g", "g", "g">>,
    <<"#", "f", "f", "f", "f", "f", "g">>,
    <<"h", "s", "l", "(", "0", ",", " ", "0", "%", ",", " ", "1", "0", "0", "%", ")">> }

\* a text of one line and one of several lines
ComposeTexts == { Word(4), ScenarioA }

ComposeCustomizations ==
  [fontSize : {DefaultFontSize},
   outlineWidth : {0, 10, 11, 17, 25, 30},
   textPosition : {"center"},
   fontStyle : {"modern"},
   textColor : TextColors,
   backgroundOverlay : BOOLEAN,
   overlayOpacity : {DefaultOverlayOpacity}]

\* image sizes: the canvas's aspect ratio 4 : 5, wider and taller ones
Images ==
  { [width |-> 1, height |-> 1], [width |-> 4, height |-> 5],
    [width |-> 640, height |-> 800], [width |-> 641, height |-> 800],
    [width |-> 640, height |-> 801], [width |-> 800, height |-> 600],
    [width |-> 600, height |-> 800], [width |-> 960, height |-> 540],
    [width |-> 540, height |-> 960], [width |-> 1000, height |-> 1],
    [width |-> 1, height |-> 1000] }

\* const img = await loadImage(photo) has resolved
ComposeInit ==
  /\ slideText \in ComposeTexts
  /\ customization \in ComposeCustomizations
  /\ img \in Images
  /\ lines = <<>>
  /\ textY = 0
  /\ lineYs = <<>>
  /\ layoutPc = "loaded"
  /\ outlineColor = <<>>
  /\ ops = <<>>
  /\ AppInitial
  /\ timer = FALSE
  /\ text = <<>>
  /\ opts = DEFAULT_OPTIONS
  /\ pc = "idle"
  /\ sentences = <<>>
  /\ processedSlides = <<>>
  /\ finalSlides = <<>>
  /\ expanded = <<>>
  /\ result = <<>>

\* the cover-fit rectangle and ctx.drawImage
DrawImage ==
  /\ layoutPc = "loaded"
  /\ ops' = Append(ops, DrawImageOp(img))
  /\ layoutPc' = "background"
  /\ UNCHANGED <<slideText, customization, lines, textY, lineYs, img,
                 outlineColor, splitVars, appVars>>

\* if (customization.backgroundOverlay) drawOverlay(ctx, customization.overlayOpacity)
DrawOverlay ==
  /\ layoutPc = "background"
  /\ ops' = IF customization.backgroundOverlay
            THEN Append(ops, FillRectOp(customization.overlayOpacity))
            ELSE ops
  /\ layoutPc' = "start"
  /\ UNCHANGED <<slideText, customization, lines, textY, lineYs, img,
                 outlineColor, splitVars, appVars>>

ComposeNext == DrawImage \/ DrawOverlay \/ MeasureText \/ DrawText

ComposeSpec == ComposeInit /\ [][ComposeNext]_vars

(***************************************************************************)
(* Properties of splitStory.                                               *)
(***************************************************************************)
\* text.trim() is empty
IsBlank(s) == \A i \in 1..Len(s) : s[i] \in Whitespace

\* the whitespace-delimited words of a string, in order
WordsOf(s) == SelectSeq(SplitWhitespace(s), LAMBDA w : w # <<>>)

\* the words of the segments of a list, in order
WordsOfAll(segments) == Flatten([i \in 1..Len(segments) |-> WordsOf(segments[i])], 1)

IsSingleWord(s) == \A i \in 1..Len(s) : s[i] \notin Whitespace

Returned == pc = "done"

\* C1: for every text whose trimmed form is non-empty, splitStory under the
\* default options returns between 8 and 20 segments.
C1_CountBetweenMinAndMax ==
  (Returned /\ opts = DEFAULT_OPTIONS /\ ~IsBlank(text))
    => (Len(result) >= DefaultMinSlides /\ Len(result) <= DefaultMaxSlides)

\* C2: splitStory terminates for every text and every options with
\* 1 <= minSlides <= maxSlides: each iteration of the loop that splits the
\* largest slide either raises the slide count or leaves the loop.
C2_LoopIterationProgresses ==
  (/\ pc = "loop"
   /\ 1 <= opts.minSlides /\ opts.minSlides <= opts.maxSlides
   /\ LoopCondition(expanded, opts.minSlides)
   /\ LargestIsSplittable(expanded))
    => Len(BisectLargest(expanded)) > Len(expanded)

\* C3: under the default options the words of the returned segments, in
\* order, are exactly the whitespace-delimited words of the trimmed input.
C3_LosslessReassembly ==
  (Returned /\ opts = DEFAULT_OPTIONS) => WordsOfAll(result) = WordsOf(text)

\* C4: under the default options every returned segment has at most
\* maxCharsPerSlide characters unless it is a single word longer than that.
C4_SegmentsWithinMaxChars ==
  (Returned /\ opts = DEFAULT_OPTIONS)
    => \A i \in 1..Len(result) :
         \/ Len(result[i]) <= opts.maxCharsPerSlide
         \/ IsSingleWord(result[i])

\* C5: for every options with maxSlides >= 1, splitStory returns at most
\* maxSlides segments, whichever branch of adjustSlideCount is taken.
C5_AtMostMaxSlides ==
  (Returned /\ opts.maxSlides >= 1) => Len(result) <= opts.maxSlides

\* the expand branch returned, and its final slice removed slides
C5_Witness ==
  /\ Returned
  /\ Len(finalSlides) < opts.minSlides
  /\ Len(expanded) > opts.maxSlides
  /\ Len(result) = opts.maxSlides

\* C6: splitStory returns the empty sequence if and only if the trimmed
\* text is empty, and never returns adjustSlideCount's placeholder.
C6_EmptyIffBlank ==
  Returned => /\ (result = <<>>) <=> IsBlank(text)
              /\ result # <<Placeholder>>

\* a whitespace-only text was given and splitStory has returned
C6_Witness == Returned /\ Len(text) > 0 /\ IsBlank(text)

(***************************************************************************)
(* Properties of the orchestration in App.tsx.                             *)
(***************************************************************************)
\* invocation k returns or throws in this step
Completes(k) == procs[k].st = "running" /\ procs'[k].st \in {"done", "failed"}

\* an invocation was started after invocation k
Superseded(k) == nextId > k + 1

\* C7: last write wins: when an invocation completes after a later one has
\* started, its results are discarded and the visible slide list is untouched.
C7_StaleResultsDiscarded ==
  [][\A k \in InvocationIds :
       (Completes(k) /\ Superseded(k)) => slides' = slides]_vars

\* C8: when a Compositor call of a generate invocation fails, an error is
\* set and the slide list published before, and the cached slide texts, stay
\* as they were.
C8_FailureKeepsPublishedSlides ==
  [][\A k \in InvocationIds :
       (/\ procs[k].st = "running"
        /\ procs[k].kind = "generate"
        /\ procs'[k].st = "failed"
        /\ Len(slides) > 0)
       => /\ error' # "none"
          /\ slides' = slides
          /\ slideTextsRef' = slideTextsRef]_vars

\* C9: generate and regenerateAll publish nothing before their last slide is
\* rendered: a step of such an invocation leaves the visible list alone
\* unless it is its last step, which publishes the whole list it rendered
\* (one slide per slide text in generate), or its failure, which never
\* publishes a slide.
C9_NoPartialPublish ==
  [][\A k \in InvocationIds :
       (/\ procs[k].st = "running"
        /\ procs[k].kind \in {"generate", "regenAll"}
        /\ procs'[k] # procs[k])
       => \/ slides' = slides
          \/ procs'[k].st = "failed" /\ slides' = <<>>
          \/ /\ procs'[k].st = "done"
             /\ Len(slides') = Len(procs[k].generated) + 1
             /\ \A j \in 1..Len(procs[k].generated) : slides'[j] = procs[k].generated[j]
             /\ procs[k].kind = "generate" => Len(slides') = Len(procs[k].texts)]_vars

\* a generate or regenerateAll invocation has rendered a slide and waits for
\* the next one while an older list is visible
C9_Witness ==
  \E k \in InvocationIds :
    /\ procs[k].st = "running"
    /\ procs[k].kind \in {"generate", "regenAll"}
    /\ Len(procs[k].generated) >= 1
    /\ Len(slides) >= 1

\* the per-slide override of index j if one is set, else the default photo
OverrideOrDefault(j, defaultPhoto) ==
  IF j \in DOMAIN customSlidePhotos THEN customSlidePhotos[j] ELSE defaultPhoto

\* C10: a successful generate publishes exactly one slide per slide text, in
\* index order; slide j is the rendering of slide text j with the override
\* photo set for j when its rendering starts, else the default photo.
C10_PublishedInIndexOrder ==
  [][\A k \in InvocationIds :
       (procs'[k].kind = "generate" /\ procs'[k] # procs[k])
       => LET p == procs[k]
              q == procs'[k]
          IN /\ (q.st = "running" /\ p.st = "unused")
                  => q.i = 0 /\ q.generated = <<>> /\ q.photo = photo
             /\ (q.st = "running" /\ p.st = "running")
                  => q.i = p.i + 1 /\ q.generated = Append(p.generated, Render(p.pending))
             /\ q.st = "running"
                  => q.pending = [photo |-> OverrideOrDefault(q.i, q.photo),
                                  text |-> q.texts[q.i + 1], num |-> q.i + 1]
             /\ q.st = "done"
                  => /\ slides' = Append(p.generated, Render(p.pending))
                     /\ Len(slides') = Len(p.texts)
                     /\ \A j \in 1..Len(slides') :
                          slides'[j].text = p.texts[j] /\ slides'[j].num = j]_vars

\* generate has published the title slide with the override photo of index 0
\* and the story slide with the default photo
C10_Witness ==
  /\ slides = << [photo |-> "Q1", text |-> <<"T">>, num |-> 1],
                 [photo |-> "P1", text |-> <<"a", ".">>, num |-> 2] >>
  /\ \A k \in InvocationIds : procs[k].st # "running"

\* the story without its first sentence
StoryRemainder(story) ==
  LET trimmed == Trim(story)
  IN Trim(SubSeq(trimmed, Len(getFirstSentence(story)) + 1, Len(trimmed)))

\* the Segmenter's output, nothing for a blank text
SegmentsOf(story) == IF IsBlank(story) THEN <<>> ELSE splitStory(story, DEFAULT_OPTIONS)

\* C11: a generation with a non-blank title renders the trimmed title on slide
\* 0 and the Segmenter's output on the whole story after it; with a blank
\* title it renders the story's first sentence on slide 0 and the Segmenter's
\* output on the story without that sentence after it (nothing when the
\* remainder is empty).
C11_FirstSlideAndRemainder ==
  \A k \in InvocationIds :
    (procs[k].st = "running" /\ procs[k].kind = "generate")
    => /\ slideTextsRef = procs[k].texts
       /\ IF ~IsBlank(title)
          THEN procs[k].texts = <<Trim(title)>> \o SegmentsOf(storyText)
          ELSE procs[k].texts =
                 <<getFirstSentence(storyText)>> \o SegmentsOf(StoryRemainder(storyText))

\* a generation without a title whose story goes on after its first sentence
C11_Witness ==
  \E k \in InvocationIds :
    /\ procs[k].st = "running"
    /\ procs[k].kind = "generate"
    /\ IsBlank(title)
    /\ Len(procs[k].texts) >= 3
    /\ procs[k].i >= 2

\* C12: regenerateSingleSlide changes only the slide at its index: when it
\* starts and when its compositor call returns or fails, every other entry
\* of the visible list, the length of the list and the cached slide texts
\* stay as they are.
C12_RegenerateOneChangesOneSlide ==
  [][\A k \in InvocationIds :
       (procs'[k].kind = "regenOne" /\ procs'[k] # procs[k])
       => LET index == IF procs[k].st = "running"
                       THEN procs[k].index ELSE procs'[k].index
          IN /\ slideTextsRef' = slideTextsRef
             /\ Len(slides') = Len(slides)
             /\ \A j \in 1..Len(slides) :
                  j # index + 1 => slides'[j] = slides[j]]_vars

\* C13: regenerateAllSlides renders every slide i from the cached slide texts
\* with the override photo set for i, else the default photo; after "Apply to
\* All" the override of every index, slide 0 included, is the source slide's
\* photo.
C13_RegenerateAllUsesOverrides ==
  [][\A k \in InvocationIds :
       (procs'[k].kind = "regenAll" /\ procs'[k].st = "running" /\ procs'[k] # procs[k])
       => LET q == procs'[k]
          IN /\ q.pending.text = slideTextsRef'[q.i + 1]
             /\ q.pending.num = q.i + 1
             /\ q.pending.photo =
                  IF q.i \in DOMAIN customSlidePhotos'
                  THEN customSlidePhotos'[q.i] ELSE q.photo]_vars

\* C14: a generated carousel never has more than 20 slides, whatever the
\* photo, the title and the story.
C14_AtMostTwentySlides ==
  /\ Len(slides) <= DefaultMaxSlides
  /\ \A k \in InvocationIds :
       procs[k].kind = "generate" => Len(procs[k].texts) <= DefaultMaxSlides

\* C15: with minSlides <= maxSlides, when steps 1-3 give fewer than minSlides
\* segments and the returned list still has fewer than minSlides segments, no
\* returned segment is longer than 50 characters.
C15_ShortOfMinOnlyWithShortSegments ==
  (/\ Returned
   /\ opts.minSlides <= opts.maxSlides
   /\ Len(finalSlides) > 0
   /\ Len(finalSlides) < opts.minSlides
   /\ Len(result) < opts.minSlides)
  => \A i \in 1..Len(result) : Len(result[i]) <= BisectThreshold

\* the expansion split some segments and stopped below minSlides
C15_Witness ==
  /\ Returned
  /\ opts.minSlides <= opts.maxSlides
  /\ Len(finalSlides) > 0
  /\ Len(finalSlides) < Len(result)
  /\ Len(result) < opts.minSlides
  /\ \E i \in 1..Len(finalSlides) : Len(finalSlides[i]) > BisectThreshold

\* C16: for "Hello world. This is a test! Short." under the default options,
\* step 1 gives the 3 sentences and the returned list has exactly 8 segments
\* that hold the words of the text in order.
C16_ScenarioAGivesEightSegments ==
  (Returned /\ text = ScenarioA /\ opts = DEFAULT_OPTIONS)
  => /\ Len(sentences) = 3
     /\ Len(result) = DefaultMinSlides
     /\ WordsOfAll(result) = WordsOf(text)

\* a sentence of space-separated words without sentence ends, commas,
\* semicolons, dashes or hyphens, longer than maxCharsPerSlide, whose words
\* all fit into maxCharsPerSlide, after step 3
LongPlainSentence ==
  /\ pc \in {"step4", "loop", "done"}
  /\ Len(Trim(text)) > opts.maxCharsPerSlide
  /\ \A i \in 1..Len(text) : text[i] \notin SentenceEnd \cup PunctuationMarks
  /\ \A j \in 1..Len(WordsOf(text)) : Len(WordsOf(text)[j]) <= opts.maxCharsPerSlide

\* the count is within [minSlides, maxSlides] and the list is returned
ReturnedInRange ==
  /\ Returned
  /\ Len(finalSlides) >= opts.minSlides
  /\ Len(finalSlides) <= opts.maxSlides

\* C17 as claimed: such a sentence of length L is one sentence after step 1,
\* unchanged by step 2, and cut by step 3 into exactly ceil(L / maxCharsPerSlide)
\* segments, which are returned unchanged when the count is in range.
C17_ExactlyCeilSegments ==
  LongPlainSentence
  => /\ sentences = <<Trim(text)>>
     /\ processedSlides = sentences
     /\ Len(finalSlides) = CeilDiv(Len(Trim(text)), opts.maxCharsPerSlide)
     /\ ReturnedInRange => result = finalSlides

\* C17: such a sentence of length L is one sentence after step 1, unchanged
\* by step 2, and packed word by word by step 3: every segment has at most
\* maxCharsPerSlide characters, no segment has room for the first word of the
\* next one, the words are kept in order, and there are at least
\* ceil((L + 1) / (maxCharsPerSlide + 1)) segments; they are returned
\* unchanged when the count is in range.
C17_GreedyWordPacking ==
  LongPlainSentence
  => /\ sentences = <<Trim(text)>>
     /\ processedSlides = sentences
     /\ \A i \in 1..Len(finalSlides) : Len(finalSlides[i]) <= opts.maxCharsPerSlide
     /\ \A i \in 1..(Len(finalSlides) - 1) :
          Len(finalSlides[i]) + 1 + Len(WordsOf(finalSlides[i + 1])[1])
            > opts.maxCharsPerSlide
     /\ WordsOfAll(finalSlides) = WordsOf(text)
     /\ Len(finalSlides) >= CeilDiv(Len(Trim(text)) + 1, opts.maxCharsPerSlide + 1)
     /\ ReturnedInRange => result = finalSlides

\* a returned sentence whose segment count is not ceil(L / maxCharsPerSlide)
C17_Witness ==
  /\ LongPlainSentence
  /\ ReturnedInRange
  /\ Len(finalSlides) # CeilDiv(Len(Trim(text)), opts.maxCharsPerSlide)

\* C18: when steps 1-3 give n > maxSlides segments, the returned list is the
\* list of the batches of ceil(n / maxSlides) consecutive segments, each
\* joined with single spaces in the original order; there are at most
\* maxSlides batches, so nothing is cut off (40 short sentences give 20
\* segments under the defaults).
C18_MergeInBatches ==
  (Returned /\ opts.maxSlides >= 1 /\ Len(finalSlides) > opts.maxSlides)
  => LET n == Len(finalSlides)
         step == CeilDiv(n, opts.maxSlides)
         batches == CeilDiv(n, step)
     IN /\ batches <= opts.maxSlides
        /\ Len(result) = batches
        /\ \A b \in 1..batches :
             result[b] =
               JoinSpace(SubSeq(finalSlides, (b - 1) * step + 1,
                                IF b * step < n THEN b * step ELSE n))
        /\ (text = ScenarioC /\ opts = DEFAULT_OPTIONS)
             => n = 2 * DefaultMaxSlides /\ batches = DefaultMaxSlides

\* the 40 sentences were merged into 20 segments
C18_Witness ==
  /\ Returned
  /\ text = ScenarioC
  /\ opts = DEFAULT_OPTIONS
  /\ Len(finalSlides) = 2 * DefaultMaxSlides
  /\ Len(result) = DefaultMaxSlides

\* the words of a text that are separated by spaces, in order
SpacedWords(s) == SelectSeq(SplitSpaces(s), LAMBDA w : w # <<>>)

Wrapped == layoutPc \in {"measured", "drawn"}

\* C19: every line wrapText returns is at most CANVAS_WIDTH - 160 pixels wide
\* unless it is a single word; the lines hold the space-separated words of
\* the text in order; there is at least one line.
C19_WrappedLinesFit ==
  Wrapped
  => /\ Len(lines) >= 1
     /\ \A j \in 1..Len(lines) :
          \/ measureText(customization, lines[j]) <= Px(CANVAS_WIDTH - TextMargin)
          \/ /\ Len(SpacedWords(lines[j])) = 1
             /\ measureText(customization, SpacedWords(lines[j])[1])
                  > Px(CANVAS_WIDTH - TextMargin)
     /\ Flatten([j \in 1..Len(lines) |-> SpacedWords(lines[j])], 1)
          = SpacedWords(slideText)

\* a text wrapped into several lines, one of them a single word wider than
\* the limit
C19_Witness ==
  /\ Wrapped
  /\ Len(lines) >= 3
  /\ \E j \in 1..Len(lines) :
       measureText(customization, lines[j]) > Px(CANVAS_WIDTH - TextMargin)
  /\ \E j \in 1..Len(lines) : Len(SpacedWords(lines[j])) >= 2

\* C20: for every number of lines, font size, outline width in 5..30 and text
\* position, the first line is drawn at y >= fontSize / 2 + outlineWidth / 2
\* + 10 and the last line at y <= 1350 - fontSize / 2 - outlineWidth / 2 - 10,
\* and consecutive lines are fontSize * 1.4 apart.
C20_BothBoundsAfterClamping ==
  (layoutPc = "drawn" /\ OutlineWidthOf(customization) \in 5..30)
  => LET fontSize == FontSizeOf(customization)
         outlineWidth == OutlineWidthOf(customization)
     IN /\ Len(lineYs) = Len(lines)
        /\ Len(lineYs) >= 1
        /\ lineYs[1] >= HalfPx(fontSize) + HalfPx(outlineWidth) + Px(10)
        /\ lineYs[Len(lineYs)]
             <= Px(1350) - HalfPx(fontSize) - HalfPx(outlineWidth) - Px(10)
        /\ \A j \in 1..(Len(lineYs) - 1) : lineYs[j + 1] - lineYs[j] = 14 * fontSize

\* drawText leaves the start position as computed from the anchor: neither
\* of its two bound checks applies
Unclamped ==
  LET count == Len(lines)
      centred == textY - (count * LineHeight(customization)) \div 2
  IN /\ centred >= MinY(customization)
     /\ centred + (count - 1) * LineHeight(customization) <= MaxY(customization)

\* C21: when no clamp applies, the midpoint between the y of the first drawn
\* line and the y of the last drawn line is the anchor returned by
\* getTextPosition (675 for textPosition "center"), for every line count.
C21_BlockCentredOnAnchor ==
  (layoutPc = "drawn" /\ Unclamped)
  => /\ lineYs[1] + lineYs[Len(lineYs)] = 2 * textY
     /\ customization.textPosition = "center" => textY = Px(675)

(***************************************************************************)
(* Properties of the composition.                                          *)
(***************************************************************************)
\* a colour string without surrounding whitespace, in lower case
Normalized(color) == toLowerCase(Trim(color))

\* # followed by 3 or 6 hexadecimal digits
IsHexColor(color) ==
  LET n == Normalized(color)
  IN /\ Len(n) \in {4, 7}
     /\ n[1] = "#"
     /\ \A i \in 2..Len(n) : n[i] \in DigitsOf(16)

\* the R, G and B of a hex colour
HexChannels(color) ==
  LET n == Normalized(color)
  IN IF Len(n) = 4
     THEN [k \in 1..3 |-> 17 * DigitValue(n[k + 1])]
     ELSE [k \in 1..3 |-> 16 * DigitValue(n[2 * k]) + DigitValue(n[2 * k + 1])]

\* the k-th of the comma-separated components of a string, trimmed
Component(s, k) ==
  LET commas == {i \in 1..Len(s) : s[i] = ","}
      before == {i \in commas : Cardinality({j \in commas : j < i}) = k - 2}
      after == {i \in commas : Cardinality({j \in commas : j < i}) = k - 1}
      from == IF before = {} THEN 1 ELSE First(before) + 1
      to == IF after = {} THEN Len(s) ELSE First(after) - 1
  IN Trim(Substring(s, from, to))

\* what rgb(...) or rgba(...) has between its parentheses, <<>> for any
\* other string
RgbArguments(color) ==
  LET n == Normalized(color)
      open == IF Len(n) >= 5 /\ SubSeq(n, 1, 4) = <<"r", "g", "b", "(">> THEN 4
              ELSE IF Len(n) >= 6 /\ SubSeq(n, 1, 5) = <<"r", "g", "b", "a", "(">>
              THEN 5 ELSE 0
  IN IF open # 0 /\ n[Len(n)] = ")" THEN SubSeq(n, open + 1, Len(n) - 1) ELSE <<>>

\* rgb(r, g, b) or rgba(r, g, b, a) with whole numbers r, g and b
IsRgbColor(color) ==
  LET arguments == RgbArguments(color)
  IN /\ Cardinality({i \in 1..Len(arguments) : arguments[i] = ","}) \in {2, 3}
     /\ \A k \in 1..3 :
          /\ Component(arguments, k) # <<>>
          /\ \A i \in 1..Len(Component(arguments, k)) :
               Component(arguments, k)[i] \in DigitsOf(10)

RgbChannels(color) ==
  [k \in 1..3 |-> DigitsValue(Component(RgbArguments(color), k), 10)]

\* the colour is a hex, rgb() or rgba() value whose average of R, G and B is
\* above 200, or it is spelled as white
LightColor(color) ==
  \/ /\ IsHexColor(color)
     /\ HexChannels(color)[1] + HexChannels(color)[2] + HexChannels(color)[3] > 3 * 200
  \/ /\ IsRgbColor(color)
     /\ RgbChannels(color)[1] + RgbChannels(color)[2] + RgbChannels(color)[3] > 3 * 200
  \/ Normalized(color) \in WhiteSpellings

\* C22: the outline colour is black or white for every textColor: black exactly
\* when textColor is a 3- or 6-digit hex or an rgb() / rgba() value whose
\* average of R, G and B is above 200, or one of the spellings of white, and
\* white for every other input (an average of exactly 200, dark colours,
\* unrecognised formats).
C22_OutlineBlackIffLight ==
  layoutPc = "drawn"
  => /\ outlineColor \in {Black, White}
     /\ outlineColor = Black <=> LightColor(customization.textColor)
     /\ \A i \in 1..Len(ops) : ops[i].op = "strokeText" => ops[i].style = outlineColor

\* ctx.drawImage has been called
ImageDrawn == Len(ops) >= 1

\* C23: for every image with positive width and height, the rectangle passed
\* to drawImage keeps the image's aspect ratio, has the canvas's size on one
\* axis and at least the canvas's size on the other, and is centred, so it
\* covers the canvas: drawX <= 0, drawY <= 0, drawX + drawWidth >= 1080 and
\* drawY + drawHeight >= 1350.
C23_CoverFit ==
  (ImageDrawn /\ img.width > 0 /\ img.height > 0)
  => LET r == ops[1]
         canvasWidth == 1080 * r.den
         canvasHeight == 1350 * r.den
     IN /\ r.op = "drawImage"
        /\ r.den > 0
        /\ r.width * img.height = r.height * img.width
        /\ r.width = canvasWidth \/ r.height = canvasHeight
        /\ r.width >= canvasWidth /\ r.height >= canvasHeight
        /\ 2 * r.x + r.width = canvasWidth
        /\ 2 * r.y + r.height = canvasHeight
        /\ r.x <= 0 /\ r.y <= 0
        /\ r.x + r.width >= canvasWidth
        /\ r.y + r.height >= canvasHeight

\* a 960 x 540 image was drawn 2400 x 1350 at x = -660
C23_Witness ==
  /\ ImageDrawn
  /\ img = [width |-> 960, height |-> 540]
  /\ ops[1].width = 2400 * ops[1].den
  /\ ops[1].height = 1350 * ops[1].den
  /\ ops[1].x = (0 - 660) * ops[1].den
  /\ ops[1].y = 0

\* the number of painting calls before the text: drawImage and, with the
\* overlay, fillRect
BackgroundCalls == IF customization.backgroundOverlay THEN 2 ELSE 1

\* ceil(outlineWidth / 8) if outlineWidth > 10 and 1 otherwise
Strokes ==
  LET outlineWidth == OutlineWidthOf(customization)
  IN IF outlineWidth > 10 THEN (outlineWidth + 7) \div 8 ELSE 1

\* C24: in one compose call the background image is painted first; the black
\* overlay rectangle is painted if and only if backgroundOverlay is set,
\* after the background and before any text; then, for each wrapped line in
\* order, the strokes of the line (ceil(outlineWidth / 8) of them if
\* outlineWidth > 10 and 1 otherwise) are drawn before the fill of the line.
C24_PaintOrder ==
  /\ layoutPc = "loaded" => ops = <<>>
  /\ layoutPc = "background" => Len(ops) = 1
  /\ layoutPc \in {"start", "measured"} => Len(ops) = BackgroundCalls
  /\ layoutPc = "drawn" => Len(ops) = BackgroundCalls + Len(lines) * (Strokes + 1)
  /\ \A i \in 1..Len(ops) :
       /\ ops[i].op = "drawImage" <=> i = 1
       /\ ops[i].op = "fillRect"
            <=> (customization.backgroundOverlay /\ i = 2)
       /\ ops[i].op = "fillRect"
            => ops[i].style = Black /\ ops[i].alpha = customization.overlayOpacity
       /\ i > BackgroundCalls
            => LET j == (i - BackgroundCalls - 1) \div (Strokes + 1) + 1
                   k == ((i - BackgroundCalls - 1) % (Strokes + 1)) + 1
               IN /\ ops[i].text = lines[j]
                  /\ ops[i].y = lineYs[j]
                  /\ ops[i].op = IF k <= Strokes THEN "strokeText" ELSE "fillText"
                  /\ ops[i].op = "strokeText"
                       => ops[i].lineWidth = OutlineWidthOf(customization)
                  /\ ops[i].op = "fillText"
                       => ops[i].style = customization.textColor

\* a text of several lines was painted over the overlay with four strokes
\* per line (outlineWidth 25)
C24_Witness ==
  /\ layoutPc = "drawn"
  /\ customization.backgroundOverlay
  /\ customization.outlineWidth = 25
  /\ Len(lines) >= 2
  /\ lines[1] # lines[2]
  /\ Len(ops) = 2 + 5 * Len(lines)
  /\ ops[6].op = "strokeText" /\ ops[7].op = "fillText" /\ ops[8].op = "strokeText"

(***************************************************************************)
(* Properties of the splitter's parts.                                     *)
(***************************************************************************)
\* C25: for every text and every maxChars >= 1, each chunk that
\* splitByCharacterCount returns is the single-space join of one or more
\* whole whitespace-delimited words of the text, each chunk has at most
\* maxChars characters unless it is one word longer than maxChars, and the
\* words of the chunks in order are the words of the text.
C25_ChunksAreJoinedWholeWords ==
  (pc = "chunked" /\ opts.maxCharsPerSlide >= 1)
  => /\ \A i \in 1..Len(result) :
          /\ Len(WordsOf(result[i])) >= 1
          /\ result[i] = JoinSpace(WordsOf(result[i]))
          /\ \/ Len(result[i]) <= opts.maxCharsPerSlide
             \/ IsSingleWord(result[i])
     /\ WordsOfAll(result) = WordsOf(text)

\* C28: every segment that splitStory returns is a non-empty string without
\* leading and without trailing whitespace, for every text and options, also
\* for a long last sentence that ends with a comma, a semicolon or a dash.
C28_SegmentsTrimmedAndNonEmpty ==
  Returned
  => \A i \in 1..Len(result) :
       /\ result[i] # <<>>
       /\ result[i][1] \notin Whitespace
       /\ result[i][Len(result[i])] \notin Whitespace

\* the lists that replace k of the segments longer than 100 characters by
\* pieces segments each and keep the others: their lengths
FirstPassLengths(n, long, pieces) == { n - k + k * pieces : k \in 0..long }

\* C26: when steps 1-3 give n < minSlides segments, the first pass of the
\* expansion splits a segment longer than 100 characters only if that does
\* not overshoot minSlides, and replaces each segment it splits by exactly
\* ceil(minSlides / n) pieces: the count after the first pass is n plus
\* ceil(minSlides / n) - 1 for each split segment and never exceeds minSlides.
C26_FirstPassNeverOvershoots ==
  [][(pc = "step4" /\ pc' = "loop")
     => LET n == Len(finalSlides)
            long == Cardinality({i \in 1..n : Len(finalSlides[i]) > 100})
        IN /\ n < opts.minSlides
           /\ Len(expanded') \in FirstPassLengths(n, long, CeilDiv(opts.minSlides, n))
           /\ Len(expanded') <= opts.minSlides
           /\ WordsOfAll(expanded') = WordsOfAll(finalSlides)]_vars

(***************************************************************************)
(* Properties of the orchestration: overrides, holes and the flag.         *)
(***************************************************************************)
\* no invocation of generateCarousel, regenerateAllSlides or
\* regenerateSingleSlide waits for the compositor
NothingInFlight == \A k \in InvocationIds : procs[k].st # "running"

\* C27: in every state where no generation is in flight, every index of the
\* per-slide override map is below the number of visible slides, after any
\* sequence of generate (also with an emptied story or a failing
\* compositor), per-slide photo change, reset and apply-to-all.
C27_OverridesReferToSlides ==
  NothingInFlight
  => \A j \in DOMAIN customSlidePhotos : j < Len(slides)

\* C29: the visible slide list never has a hole: under every interleaving of
\* regenerateSingleSlide completions with generateCarousel runs, every
\* position of the list holds a rendered image, and a completion of
\* regenerateSingleSlide never makes the list longer.
C29_NoHoleInSlides ==
  [][/\ \A j \in 1..Len(slides') : slides'[j] # Hole
     /\ \A k \in InvocationIds :
          (procs[k].st = "running" /\ procs[k].kind = "regenOne" /\ Completes(k))
          => Len(slides') <= Len(slides)]_vars

\* an invocation of generateCarousel or regenerateAllSlides is rendering
GenerationInFlight ==
  \E k \in InvocationIds :
    procs[k].st = "running" /\ procs[k].kind \in {"generate", "regenAll"}

\* C30: isGenerating is true in every state in which a generateCarousel or
\* regenerateAllSlides invocation is rendering, also when two of them
\* overlap and one finishes first, and false when none is in flight.
C30_FlagFollowsInvocations == isGenerating <=> GenerationInFlight

====
